---- MODULE Spec2Model ----
(***************************************************************************)
(* react-model-picker (src/index.tsx): the useModelPicker hook and the     *)
(* ModelPicker component built on it, as a state machine of React renders  *)
(* and effects.                                                            *)
(*                                                                         *)
(* The committed state of the last render is held in the variables named   *)
(* after the hook's state (selectedProvider, apiKey, modelId, model,       *)
(* apiKeyMap, preferredModelMap, useCustomModelInput).  A setter call does *)
(* not change them: it queues an update (queued), which the next render    *)
(* applies.  After a render the effects run in the order they are declared,*)
(* each only when one of its dependencies differs from the previous        *)
(* render, with the values of the render they were created in.             *)
(***************************************************************************)
EXTENDS Integers, Sequences, FiniteSets, TLC

\* ---------------------------------------------------------------- values
\* The JavaScript value undefined (models[0] of an empty list, a missing map
\* entry).  No string a caller passes equals it.
Undefined == "<undefined>"

\* JavaScript truthiness of a string-or-undefined value.
Truthy(v) == v # Undefined /\ v # ""

\* models[0]
First(models) == IF models = <<>> THEN Undefined ELSE models[1]

\* map[key] on a plain object: undefined when the key is absent.
MapGet(map, key) == IF key \in DOMAIN map THEN map[key] ELSE Undefined

\* {...prev, [key]: value}
MapPut(prev, key, value) ==
    [k \in DOMAIN prev \cup {key} |-> IF k = key THEN value ELSE prev[k]]

EmptyMap == [k \in {} |-> ""]

\* ------------------------------------------------------------- providers
\* A provider of the list: name, models, and the behaviour of the caller's
\* constructor and accessors: `rejects` are the credentials the constructor
\* throws on, `noSuchModel` the model ids the accessor throws on.
ProviderDescriptor(n, ms, rej, nsm) ==
    [name |-> n, models |-> ms, rejects |-> rej, noSuchModel |-> nsm]

ProviderLists ==
    { << ProviderDescriptor("A", <<"a1", "a2">>, {}, {}),
         ProviderDescriptor("B", <<"b1">>, {}, {}) >>,
      << ProviderDescriptor("A", <<"a1">>, {}, {"x"}),
         ProviderDescriptor("B", <<"b1">>, {"bad"}, {}) >>,
      << ProviderDescriptor("E", <<>>, {}, {}),
         ProviderDescriptor("B", <<"b1">>, {}, {}) >>,
      << ProviderDescriptor("A", <<"a1">>, {}, {}),
         ProviderDescriptor("E", <<>>, {}, {}) >> }

ModelTypes == {"language", "embedding", "image", "other"}

Names(ps) == {ps[i].name : i \in DOMAIN ps}

\* providerMap.has(name)
ProviderMapHas(ps, name) == name \in Names(ps)

\* providerMap.get(name): the loop overwrites, so the last entry of a name wins.
ProviderMapGet(ps, name) ==
    LET last == CHOOSE i \in DOMAIN ps :
                   /\ ps[i].name = name
                   /\ \A j \in DOMAIN ps : ps[j].name = name => j <= i
    IN  ps[last]

\* modelIdList: providerMap.get(selectedProvider)?.models || []
ModelIdList(ps, name) ==
    IF ProviderMapHas(ps, name) THEN ProviderMapGet(ps, name).models ELSE <<>>

\* modelIdList.includes(id)
Includes(list, id) == \E i \in DOMAIN list : list[i] = id

\* The strings a caller or the user hands to the setters.
ApiKeys(ps) == {"", "k1"} \cup UNION {ps[i].rejects : i \in DOMAIN ps}
\* The model ids are the empty string, every known id of the list (a custom id
\* for the other providers) and the ids an accessor throws on.
ModelIds(ps) ==
    {""} \cup UNION {{ps[i].models[j] : j \in DOMAIN ps[i].models} : i \in DOMAIN ps}
         \cup UNION {ps[i].noSuchModel : i \in DOMAIN ps}
ProviderArgs(ps) == Names(ps) \cup {"Z"}

\* ---------------------------------------------------------- model handle
\* Mutant: modelType is ignored.
AccessorLanguageOnly(mt) == "languageModel"

\* The switch on modelType: which accessor of the provider is called.
Accessor(mt) ==
    CASE mt = "language"  -> "languageModel"
      [] mt = "embedding" -> "textEmbeddingModel"
      [] mt = "image"     -> "imageModel"
      [] OTHER            -> "languageModel"

\* What the accessor returns: an opaque object, identified by what it was made from.
Handle(name, key, acc, id) ==
    [provider |-> name, apiKey |-> key, accessor |-> acc, modelId |-> id]

NoModel == Handle(Undefined, Undefined, Undefined, Undefined)

\* Why constructing the handle throws, or "none".
\*   unknownProvider: providerMap.get(...) is undefined and provider!.accessor(...)
\*                    is a TypeError
\*   construct:       the provider's constructor throws
\*   accessor:        the accessor throws
Failure(ps, name, key, id) ==
    IF ~ProviderMapHas(ps, name) THEN "unknownProvider"
    ELSE IF key \in ProviderMapGet(ps, name).rejects THEN "construct"
    ELSE IF id \in ProviderMapGet(ps, name).noSuchModel THEN "accessor"
    ELSE "none"

\* getModel(): called in every render as the argument of useState.
GetModel(ps, mt, name, key, id) == Handle(name, key, Accessor(mt), id)

\* ------------------------------------------------------------------ state
VARIABLES
    providers,            \* arguments of the hook: the provider list,
    modelType,            \*   options.modelType,
    useLS,                \*   options.useLocalStorage
    shell,                \* TRUE: the ModelPicker component; FALSE: the bare hook
    onModelChange,        \* ModelPicker: is the onModelChange prop supplied
    selectedProvider,     \* the state of the last render
    apiKey,
    modelId,
    model,
    apiKeyMap,
    preferredModelMap,
    useCustomModelInput,
    queued,               \* setter calls since the last render
    pc,                   \* what React runs next
    runEffects,           \* the effects of this render whose dependencies changed
    crashCause,           \* why a render or an effect threw, or "none"
    notified,             \* ModelPicker: the arguments onModelChange was called with last
    event,                \* history: the external call being processed
    userKey,              \* history: per provider, the last setApiKey argument while selected
    userModel             \* history: per provider, the last setModelId argument while selected

config == <<providers, modelType, useLS, shell, onModelChange>>
state == <<selectedProvider, apiKey, modelId, model, apiKeyMap, preferredModelMap,
           useCustomModelInput>>
history == <<event, userKey, userModel>>
vars == <<config, state, queued, pc, runEffects, crashCause, notified, history>>

EmptyQueue ==
    [selectedProvider |-> <<>>, apiKey |-> <<>>, modelId |-> <<>>, model |-> <<>>,
     apiKeyMap |-> <<>>, preferredModelMap |-> <<>>, useCustomModelInput |-> <<>>]

\* The value of a state after the queued updates of it (the last call wins).
Latest(q, current) == IF q = <<>> THEN current ELSE q[Len(q)]

\* The effects in the order of their declaration: four of the hook, then three
\* of ModelPicker.
HookEffects == {"derive", "restore", "persistKey", "persistModel"}
ShellEffects == {"flag", "snap", "notify"}
AllEffects(sh) == IF sh THEN HookEffects \cup ShellEffects ELSE HookEffects

\* After the last effect: a queued update schedules a render.
AfterEffects(q) == IF q = EmptyQueue THEN "idle" ELSE "render"

\* event: the call (op, arg), whether arg differs from the value it replaces, and
\* for setSelectedProvider whether neither map has an entry for arg.  For a
\* toggle arg is the value the flag is set to.
ExternalEvent(op, arg, changes, first) ==
    [op |-> op, arg |-> arg, changes |-> changes, firstVisit |-> first]
NoEvent == ExternalEvent("mount", Undefined, FALSE, FALSE)
\* A mount over stored values: arg is what the instance torn down had, and
\* changes tells whether it was torn down settled.
Restart(before, settled) == ExternalEvent("remount", before, settled, FALSE)
NoHistory(ps) == [n \in Names(ps) |-> <<>>]
\* The history of the setter calls of the hook's caller.  It is kept for the bare
\* hook: in ModelPicker the component's own effects call the setters too.
Called(hist, name, v) == IF shell THEN hist ELSE [hist EXCEPT ![name] = <<v>>]

\* ------------------------------------------------------------ useStorage
\* useStorage(key, initialValue) is useState, or useLocalStorage of
\* @uidotdev/usehooks.  The latter keeps JSON in localStorage: its setter
\* removes the key for undefined, and a missing key reads as initialValue;
\* JSON.stringify drops the properties whose value is undefined.
StoredModelId(ls, ps, v) == IF ls /\ v = Undefined THEN First(ps[1].models) ELSE v

StoredMap(ls, map) ==
    IF ls THEN [k \in {n \in DOMAIN map : map[n] # Undefined} |-> map[k]] ELSE map

\* ------------------------------------------------------------ first render
\* The first render of an instance: the useState/useStorage initial values, and
\* getModel() for the initial model.  All effects run after it.
Mount(ps, mt, sel, id) ==
    LET why == Failure(ps, sel, "", id)
    IN  [pc |-> IF why = "none" THEN "effects" ELSE "crashed",
         crashCause |-> why,
         model |-> IF why = "none" THEN GetModel(ps, mt, sel, "", id) ELSE NoModel]

Init ==
    /\ providers \in ProviderLists
    /\ modelType \in ModelTypes
    /\ useLS \in BOOLEAN
    /\ shell \in BOOLEAN
    /\ onModelChange \in BOOLEAN
    /\ shell = FALSE => onModelChange = FALSE
    /\ selectedProvider = providers[1].name
    /\ apiKey = ""
    /\ modelId = First(providers[1].models)
    /\ LET m == Mount(providers, modelType, selectedProvider, modelId)
       IN  /\ model = m.model
           /\ pc = m.pc
           /\ crashCause = m.crashCause
    /\ apiKeyMap = EmptyMap
    /\ preferredModelMap = EmptyMap
    /\ useCustomModelInput = FALSE
    /\ queued = EmptyQueue
    /\ runEffects = AllEffects(shell)
    /\ notified = <<>>
    /\ event = NoEvent
    /\ userKey = NoHistory(providers)
    /\ userModel = NoHistory(providers)

\* ---------------------------------------------------------------- setters
\* Mutant: of the setModelId calls made before a render the first one wins.
QueueModelIdFirstWins(q, v) ==
    IF q.modelId = <<>>
    THEN [q EXCEPT !.modelId = <<StoredModelId(useLS, providers, v)>>]
    ELSE q

\* setModelId(v), as the hook's useStorage setter stores it.
QueueModelId(q, v) == [q EXCEPT !.modelId = <<StoredModelId(useLS, providers, v)>>]

\* Mutant: setting the credential also clears the model id.
QueueApiKeyClearsModelId(q, v) == [q EXCEPT !.apiKey = <<v>>, !.modelId = <<"">>]

\* setApiKey(v)
QueueApiKey(q, v) == [q EXCEPT !.apiKey = <<v>>]

\* The model is settled: no render or effect is pending and nothing threw.
Settled == pc = "idle"

\* setApiKey(value), by the caller of the hook or by ModelPicker's API key input.
SetApiKey(v) ==
    /\ pc = "idle"
    /\ queued' = QueueApiKey(queued, v)
    /\ pc' = "render"
    /\ event' = ExternalEvent("setApiKey", v, v # apiKey, FALSE)
    /\ userKey' = Called(userKey, selectedProvider, v)
    /\ UNCHANGED <<config, state, runEffects, crashCause, notified, userModel>>

\* setModelId(value), by the caller of the hook; in ModelPicker by the text input
\* (shown when useCustomModelInput) or by the select, whose options are modelIdList.
SetModelId(v) ==
    /\ pc = "idle"
    /\ shell => (useCustomModelInput \/ Includes(ModelIdList(providers, selectedProvider), v))
    /\ queued' = QueueModelId(queued, v)
    /\ pc' = "render"
    /\ event' = ExternalEvent("setModelId", v, v # modelId, FALSE)
    /\ userModel' = Called(userModel, selectedProvider, v)
    /\ UNCHANGED <<config, state, runEffects, crashCause, notified, userKey>>

\* setModelId(x); setModelId(y) in one event handler of the caller: both calls
\* are made before React renders.  x is a value other than the current model id
\* and other than y.
SetModelIdTwice(x, y) ==
    /\ pc = "idle"
    /\ x # y
    /\ x # modelId
    /\ shell => \/ useCustomModelInput
                \/ /\ Includes(ModelIdList(providers, selectedProvider), x)
                   /\ Includes(ModelIdList(providers, selectedProvider), y)
    /\ queued' = QueueModelId(QueueModelId(queued, x), y)
    /\ pc' = "render"
    /\ event' = ExternalEvent("setModelIdTwice", <<x, y>>, y # modelId, FALSE)
    /\ userModel' = Called(userModel, selectedProvider, y)
    /\ UNCHANGED <<config, state, runEffects, crashCause, notified, userKey>>

\* setSelectedProvider(value), by the caller of the hook with any string; in
\* ModelPicker by the select, whose options are the names of providerList.
SetSelectedProvider(n) ==
    /\ pc = "idle"
    /\ shell => n \in Names(providers)
    /\ queued' = [queued EXCEPT !.selectedProvider = <<n>>]
    /\ pc' = "render"
    /\ event' = ExternalEvent("setSelectedProvider", n, n # selectedProvider,
                 n \notin DOMAIN apiKeyMap /\ n \notin DOMAIN preferredModelMap)
    /\ UNCHANGED <<config, state, runEffects, crashCause, notified, userKey,
                   userModel>>

\* ModelPicker: a click on the toggle, setUseCustomModelInput(!useCustomModelInput).
ToggleCustomModelInput ==
    /\ pc = "idle"
    /\ shell
    /\ queued' = [queued EXCEPT !.useCustomModelInput = <<~useCustomModelInput>>]
    /\ pc' = "render"
    /\ event' = ExternalEvent("toggle", ~useCustomModelInput, TRUE, FALSE)
    /\ UNCHANGED <<config, state, runEffects, crashCause, notified, userKey,
                   userModel>>

\* ----------------------------------------------------------------- render
\* A render after queued updates: the states take their latest values, getModel()
\* is evaluated (and its result dropped: useState keeps the first), and the
\* effects whose dependencies changed are scheduled.  A throw in the render
\* unmounts the component.
Render ==
    /\ pc = "render"
    /\ LET sel  == Latest(queued.selectedProvider, selectedProvider)
           key  == Latest(queued.apiKey, apiKey)
           id   == Latest(queued.modelId, modelId)
           flag == Latest(queued.useCustomModelInput, useCustomModelInput)
           why  == Failure(providers, sel, key, id)
           changed ==
               (IF key # apiKey \/ sel # selectedProvider \/ id # modelId
                THEN {"derive"} ELSE {})
               \cup (IF sel # selectedProvider THEN {"restore"} ELSE {})
               \cup (IF key # apiKey THEN {"persistKey"} ELSE {})
               \cup (IF id # modelId THEN {"persistModel", "flag"} ELSE {})
               \cup (IF flag # useCustomModelInput THEN {"snap"} ELSE {})
               \cup (IF queued.model # <<>> THEN {"notify"} ELSE {})
       IN  /\ selectedProvider' = sel
           /\ apiKey' = key
           /\ modelId' = id
           /\ useCustomModelInput' = flag
           /\ model' = Latest(queued.model, model)
           /\ apiKeyMap' =
                 IF queued.apiKeyMap = <<>> THEN apiKeyMap
                 ELSE StoredMap(useLS, MapPut(apiKeyMap, queued.apiKeyMap[1].key,
                                              queued.apiKeyMap[1].value))
           /\ preferredModelMap' =
                 IF queued.preferredModelMap = <<>> THEN preferredModelMap
                 ELSE StoredMap(useLS, MapPut(preferredModelMap,
                                              queued.preferredModelMap[1].key,
                                              queued.preferredModelMap[1].value))
           /\ crashCause' = why
           /\ pc' = IF why = "none" THEN "effects" ELSE "crashed"
           /\ runEffects' = IF why = "none" THEN changed \cap AllEffects(shell) ELSE {}
    /\ queued' = EmptyQueue
    /\ UNCHANGED <<config, notified, history>>

\* ---------------------------------------------------- effects of the hook
\* Each effect is given as what it adds to the queue q of setter calls; it reads
\* the values of the render it belongs to.

\* useEffect(..., [apiKey, selectedProvider, modelId]): derive the model.
\* Nothing is set when providerMap has no such provider (if (provider) ...).
DeriveModelEffect(q) ==
    IF "derive" \in runEffects /\ ProviderMapHas(providers, selectedProvider)
    THEN [q EXCEPT !.model =
             <<Handle(selectedProvider, apiKey, Accessor(modelType), modelId)>>]
    ELSE q

\* What the restore effect sets the model id and the credential to.
RestoredModelId(ps, map, name) ==
    IF Truthy(MapGet(map, name)) THEN MapGet(map, name)
    ELSE First(ProviderMapGet(ps, name).models)

RestoredApiKey(map, name) ==
    IF Truthy(MapGet(map, name)) THEN MapGet(map, name) ELSE ""

\* useEffect(..., [selectedProvider]): restore the provider's model id and credential.
RestoreEffect(q) ==
    IF "restore" \in runEffects
    THEN QueueApiKey(
             QueueModelId(q, RestoredModelId(providers, preferredModelMap,
                                             selectedProvider)),
             RestoredApiKey(apiKeyMap, selectedProvider))
    ELSE q

\* Mutant: every entry is written under the first provider of the list.
PersistUnderFirst(sel) == providers[1].name

\* The provider name a map entry is written under.
PersistUnder(sel) == sel

\* useEffect(..., [apiKey]): record the credential under the selected provider.
PersistApiKeyEffect(q) ==
    IF "persistKey" \in runEffects
    THEN [q EXCEPT !.apiKeyMap =
             <<[key |-> PersistUnder(selectedProvider), value |-> apiKey]>>]
    ELSE q

\* Mutant: the model id is not recorded.
PersistModelIdSkipped(q) == q

\* useEffect(..., [modelId]): record the model id under the selected provider.
PersistModelIdEffect(q) ==
    IF "persistModel" \in runEffects
    THEN [q EXCEPT !.preferredModelMap =
             <<[key |-> PersistUnder(selectedProvider), value |-> modelId]>>]
    ELSE q

\* ------------------------------------------------- effects of ModelPicker
\* Mutant: the negation is lost.
CustomFlagInverted(list, id) == Includes(list, id)

\* !modelIdList.includes(modelId)
CustomFlag(list, id) == ~Includes(list, id)

\* useEffect(..., [modelId]): the custom flag follows membership in modelIdList.
FlagEffect(q) ==
    IF "flag" \in runEffects
    THEN [q EXCEPT !.useCustomModelInput =
             <<CustomFlag(ModelIdList(providers, selectedProvider), modelId)>>]
    ELSE q

\* Mutant: the first known model id is taken when the flag has become true.
SnapEffectInCustomMode(q) ==
    IF "snap" \in runEffects /\ useCustomModelInput
    THEN QueueModelId(q, First(ModelIdList(providers, selectedProvider)))
    ELSE q

\* useEffect(..., [useCustomModelInput]): in list mode, take the first known model id.
SnapEffect(q) ==
    IF "snap" \in runEffects /\ ~useCustomModelInput
    THEN QueueModelId(q, First(ModelIdList(providers, selectedProvider)))
    ELSE q

\* Mutant: onModelChange is called on mount only.
NotifyOnMountOnly(seen) ==
    IF "notify" \in runEffects /\ onModelChange /\ seen = <<>> THEN <<model>> ELSE seen

\* useEffect(..., [model, onModelChange]): hand the model to the caller.
NotifyEffect(seen) ==
    IF "notify" \in runEffects /\ onModelChange THEN <<model>> ELSE seen

\* Why an effect of this render throws, or "none": the derive effect when the
\* constructor or the accessor throws, the restore effect when it reads
\* providerMap.get(selectedProvider)!.models of a provider that is not there.
EffectFailure ==
    LET why == Failure(providers, selectedProvider, apiKey, modelId)
    IN  IF "derive" \in runEffects /\ why \in {"construct", "accessor"} THEN why
        ELSE IF /\ "restore" \in runEffects
                /\ ~Truthy(MapGet(preferredModelMap, selectedProvider))
                /\ ~ProviderMapHas(providers, selectedProvider)
        THEN "unknownProvider"
        ELSE "none"

\* After a commit React runs the effects of the render in the order of their
\* declaration, in one go; the setter calls they make are applied by the next
\* render.  An effect that throws unmounts the component.
Effects ==
    /\ pc = "effects"
    /\ IF EffectFailure # "none"
       THEN /\ pc' = "crashed"
            /\ crashCause' = EffectFailure
            /\ UNCHANGED <<queued, notified>>
       ELSE /\ queued' =
                 SnapEffect(FlagEffect(PersistModelIdEffect(PersistApiKeyEffect(
                     RestoreEffect(DeriveModelEffect(queued))))))
            /\ notified' = NotifyEffect(notified)
            /\ pc' = AfterEffects(queued')
            /\ UNCHANGED crashCause
    /\ UNCHANGED <<config, state, runEffects, history>>

\* ------------------------------------------------------------ new instance
\* The component is unmounted (or has crashed) and a new instance is mounted
\* with the same arguments.  useState starts over; useLocalStorage reads what
\* the last instance stored: provider, modelId and the two maps.
Remount ==
    /\ pc \in {"idle", "crashed"}
    /\ LET sel == IF useLS THEN selectedProvider ELSE providers[1].name
           id  == IF useLS THEN modelId ELSE First(providers[1].models)
           m   == Mount(providers, modelType, sel, id)
       IN  /\ selectedProvider' = sel
           /\ modelId' = id
           /\ model' = m.model
           /\ pc' = m.pc
           /\ crashCause' = m.crashCause
    /\ apiKey' = ""
    /\ apiKeyMap' = IF useLS THEN apiKeyMap ELSE EmptyMap
    /\ preferredModelMap' = IF useLS THEN preferredModelMap ELSE EmptyMap
    /\ useCustomModelInput' = FALSE
    /\ queued' = EmptyQueue
    /\ runEffects' = AllEffects(shell)
    /\ notified' = <<>>
    /\ event' = IF useLS
                THEN Restart([selectedProvider |-> selectedProvider,
                              apiKey |-> apiKey, modelId |-> modelId,
                              apiKeyMap |-> apiKeyMap,
                              preferredModelMap |-> preferredModelMap],
                             pc = "idle")
                ELSE NoEvent
    /\ userKey' = NoHistory(providers)
    /\ userModel' = NoHistory(providers)
    /\ UNCHANGED config

Next ==
    \/ \E v \in ApiKeys(providers) : SetApiKey(v)
    \/ \E v \in ModelIds(providers) : SetModelId(v)
    \/ \E x, y \in ModelIds(providers) : SetModelIdTwice(x, y)
    \/ \E n \in ProviderArgs(providers) : SetSelectedProvider(n)
    \/ ToggleCustomModelInput
    \/ Render
    \/ Effects
    \/ Remount

Spec == Init /\ [][Next]_vars

\* ModelPicker whose user never clicks the toggle: the flag is only set by the
\* component's effect on [modelId].
NextWithoutToggle ==
    \/ \E v \in ApiKeys(providers) : SetApiKey(v)
    \/ \E v \in ModelIds(providers) : SetModelId(v)
    \/ \E x, y \in ModelIds(providers) : SetModelIdTwice(x, y)
    \/ \E n \in ProviderArgs(providers) : SetSelectedProvider(n)
    \/ Render
    \/ Effects
    \/ Remount

SpecWithoutToggle == Init /\ [][NextWithoutToggle]_vars

\* ModelPicker with the onModelChange prop.  React always runs a render it has
\* scheduled and always flushes the effects of a render it has committed: weak
\* fairness of Render and of Effects.
InitWithCallback == Init /\ shell /\ onModelChange

LiveSpec ==
    InitWithCallback /\ [][Next]_vars /\ WF_vars(Render) /\ WF_vars(Effects)

\* ================================================================= claims
\* A provider switch has been processed to the end.
Switched == Settled /\ event.op = "setSelectedProvider" /\ event.changes

\* Every provider of the list has a model and neither its constructor nor its
\* accessor throws.  C1, C7, C8 and C10 are stated on these lists, where what
\* they describe does not meet an empty list or a throwing provider.
PlainProviders ==
    \A i \in DOMAIN providers :
        /\ providers[i].models # <<>>
        /\ providers[i].rejects = {}
        /\ providers[i].noSuchModel = {}

\* The first known model id as the specification reads it: "" for an empty list.
FirstOrEmpty(models) == IF models = <<>> THEN "" ELSE models[1]

\* C1: switch-restore (bare hook).  If setApiKey(k1) and setModelId(m1) were the
\* last such calls while provider A was selected, then once a later switch back
\* to A has settled, apiKey = k1 and modelId = m1, for every string k1 and m1.
C1_SwitchRestore ==
    (/\ Switched
     /\ ~shell
     /\ PlainProviders
     /\ userKey[selectedProvider] # <<>>
     /\ userModel[selectedProvider] # <<>>)
    => /\ apiKey = userKey[selectedProvider][1]
       /\ modelId = userModel[selectedProvider][1]

\* C2: per-provider isolation.  While a setApiKey call is processed (the call,
\* every render and every run of the effects up to the next call) no entry of
\* apiKeyMap other than the selected provider's appears, disappears or changes;
\* likewise setModelId and preferredModelMap.
OthersUntouched(map, map2, sel) ==
    \A n \in (DOMAIN map \cup DOMAIN map2) \ {sel} :
        n \in DOMAIN map /\ n \in DOMAIN map2 /\ map2[n] = map[n]

C2_Isolation ==
    [][/\ event'.op = "setApiKey"
          => OthersUntouched(apiKeyMap, apiKeyMap', selectedProvider')
       /\ event'.op = "setModelId"
          => OthersUntouched(preferredModelMap, preferredModelMap', selectedProvider')]_vars

\* C2 witness: a setApiKey call that changed the credential has settled while
\* another provider holds a different, non-empty remembered credential.
C2_Witness ==
    /\ Settled
    /\ event.op = "setApiKey"
    /\ event.changes
    /\ \E n \in DOMAIN apiKeyMap \ {selectedProvider} :
          Truthy(apiKeyMap[n]) /\ apiKeyMap[n] # event.arg

\* C3: fallback on first visit.  After a switch to a provider with no entry in
\* either map has settled, apiKey = "" and modelId is the provider's models[0]
\* (for an empty list: undefined as JavaScript reads it, "" as the specification
\* does; either is accepted here).
C3_FallbackOnFirstVisit ==
    (Switched /\ event.firstVisit)
    => /\ apiKey = ""
       /\ modelId \in {First(ModelIdList(providers, selectedProvider)),
                       FirstOrEmpty(ModelIdList(providers, selectedProvider))}

\* C4: custom model id.  After setModelId(v) with v not in the selected
\* provider's models has settled, modelId = v, and in ModelPicker
\* useCustomModelInput is true.
C4_CustomModelId ==
    (/\ Settled
     /\ event.op = "setModelId"
     /\ ~Includes(ModelIdList(providers, selectedProvider), event.arg))
    => /\ modelId = event.arg
       /\ shell => useCustomModelInput

\* C4 witness: in ModelPicker a non-empty id outside the list was typed, is the
\* model id and the flag is set.
C4_Witness ==
    /\ Settled
    /\ shell
    /\ event.op = "setModelId"
    /\ event.changes
    /\ Truthy(event.arg)
    /\ ~Includes(ModelIdList(providers, selectedProvider), event.arg)
    /\ modelId = event.arg
    /\ useCustomModelInput

\* C5: initialization.  Once the mount effects of a fresh manager (nothing
\* stored) have settled, selectedProvider = providers[0].name, apiKey = "" and
\* modelId = providers[0].models[0], "" when that list is empty.
C5_Initialization ==
    (Settled /\ event.op = "mount")
    => /\ selectedProvider = providers[1].name
       /\ apiKey = ""
       /\ modelId = FirstOrEmpty(providers[1].models)

\* C6: a throwing constructor or accessor does not crash the manager.
C6_ConstructionFailureRecovered == crashCause \notin {"construct", "accessor"}

\* C7: selectedProvider is always a name of the provider list, and a
\* setSelectedProvider with another name leaves the manager running.
C7_SelectedProviderKnown ==
    PlainProviders
    => /\ selectedProvider \in Names(providers)
       /\ crashCause # "unknownProvider"

\* C8: no derivation on an intermediate state.  When the derive effect runs in
\* the render in which a setSelectedProvider call changed the provider, apiKey
\* and modelId are already the restored values of the new provider.
C8_NoIntermediateDerive ==
    (/\ pc = "effects"
     /\ PlainProviders
     /\ event.op = "setSelectedProvider"
     /\ {"derive", "restore"} \subseteq runEffects)
    => /\ apiKey = RestoredApiKey(apiKeyMap, selectedProvider)
       /\ modelId = StoredModelId(useLS, providers,
                        RestoredModelId(providers, preferredModelMap, selectedProvider))

\* C9: derived handle consistency.  In every settled state model is the handle
\* made by the selected provider's constructor from apiKey, with the accessor of
\* the configured modelType applied to modelId.
AccessorOfClaim ==
    IF modelType = "embedding" THEN "textEmbeddingModel"
    ELSE IF modelType = "image" THEN "imageModel"
    ELSE "languageModel"

C9_HandleConsistency ==
    Settled =>
        /\ ProviderMapHas(providers, selectedProvider)
        /\ model = [provider |-> selectedProvider, apiKey |-> apiKey,
                    accessor |-> AccessorOfClaim, modelId |-> modelId]

\* C9 witness: an embedding model handle derived after the credential changed.
C9_Witness ==
    /\ Settled
    /\ modelType = "embedding"
    /\ event.op = "setApiKey"
    /\ event.changes
    /\ model.apiKey = event.arg
    /\ model.accessor = "textEmbeddingModel"

\* C10 as stated: persistence on edit (bare hook).  After any setApiKey(v) has
\* settled apiKeyMap holds selectedProvider -> v, and after any setModelId(v)
\* preferredModelMap holds selectedProvider -> v, also when v is the current value.
Holds(map, name, v) == name \in DOMAIN map /\ map[name] = v

C10_PersistenceOnEdit ==
    /\ (Settled /\ ~shell /\ PlainProviders /\ event.op = "setApiKey")
       => Holds(apiKeyMap, selectedProvider, event.arg)
    /\ (Settled /\ ~shell /\ PlainProviders /\ event.op = "setModelId")
       => Holds(preferredModelMap, selectedProvider, event.arg)

\* C10 amended: the same for a call whose argument differs from the current
\* value (a call with the current value renders nothing and runs no effect).
C10_PersistenceOnChange ==
    /\ (Settled /\ ~shell /\ event.op = "setApiKey" /\ event.changes)
       => Holds(apiKeyMap, selectedProvider, event.arg)
    /\ (Settled /\ ~shell /\ event.op = "setModelId" /\ event.changes)
       => Holds(preferredModelMap, selectedProvider, event.arg)

\* C10 witness: the bare hook, a changed model id recorded for a provider other
\* than the first.
C10_Witness ==
    /\ Settled
    /\ ~shell
    /\ event.op = "setModelId"
    /\ event.changes
    /\ selectedProvider # providers[1].name
    /\ Holds(preferredModelMap, selectedProvider, event.arg)

\* C11: map/selection consistency.  In every settled state the entry of
\* apiKeyMap for selectedProvider equals apiKey and the entry of
\* preferredModelMap for selectedProvider equals modelId.  Stated here for the
\* entries that exist (a provider reached by a switch that left a field
\* unchanged has none, see C10): an entry that is there equals the field.
C11_MapSelectionConsistency ==
    (Settled /\ PlainProviders)
    => /\ selectedProvider \in DOMAIN apiKeyMap
          => apiKeyMap[selectedProvider] = apiKey
       /\ selectedProvider \in DOMAIN preferredModelMap
          => preferredModelMap[selectedProvider] = modelId

\* C12: durable persistence across sessions.  With useLocalStorage, when an
\* instance is torn down in a settled state and a new one is mounted over the
\* same storage, then once the mount effects have settled selectedProvider,
\* modelId and apiKey are those of the instance torn down and both maps still
\* hold every entry they held.
KeepsEntries(before, after) ==
    \A n \in DOMAIN before : n \in DOMAIN after /\ after[n] = before[n]

C12_DurablePersistence ==
    (/\ Settled
     /\ useLS
     /\ ~shell
     /\ PlainProviders
     /\ event.op = "remount"
     /\ event.changes)
    => /\ selectedProvider = event.arg.selectedProvider
       /\ modelId = event.arg.modelId
       /\ apiKey = event.arg.apiKey
       /\ KeepsEntries(event.arg.apiKeyMap, apiKeyMap)
       /\ KeepsEntries(event.arg.preferredModelMap, preferredModelMap)

\* C13: the persistent maps only grow.  Across every step of an instance (a
\* setter call, a render, a run of the effects) and across a new instance over
\* the same localStorage, every key of apiKeyMap and of preferredModelMap is
\* still a key afterwards.  (Without localStorage a new instance starts with
\* empty maps: that step is left out.)
KeysKept(map, map2) == DOMAIN map \subseteq DOMAIN map2

C13_MapsOnlyGrow ==
    [][(useLS \/ ~Remount)
       => /\ KeysKept(apiKeyMap, apiKeyMap')
          /\ KeysKept(preferredModelMap, preferredModelMap')]_vars

\* C14: derived handle recency.  When setModelId(x) and then setModelId(y) are
\* called in one event, with no render in between, then in no step of the
\* processing of that event does x become the model id, a handle made from x
\* become model or the argument of onModelChange, or x get recorded in
\* preferredModelMap; and once the bare hook has settled, modelId is y and
\* model is the handle made from y.  (In ModelPicker the case x = modelIdList[0]
\* is left out: there the component's own effect may call setModelId with that
\* same value, see C15 and C18.)
SupersededId == event'.arg[1]
LatestId == event'.arg[2]

C14_HandleRecency ==
    [][event'.op = "setModelIdTwice" =>
         /\ (shell => SupersededId # First(ModelIdList(providers, selectedProvider')))
            => /\ modelId' = SupersededId => modelId = SupersededId
               /\ model'.modelId = SupersededId => model.modelId = SupersededId
               /\ (notified' # <<>> /\ notified'[1].modelId = SupersededId)
                  => (notified # <<>> /\ notified[1].modelId = SupersededId)
               /\ MapGet(preferredModelMap', selectedProvider') = SupersededId
                  => MapGet(preferredModelMap, selectedProvider) = SupersededId
         /\ (Settled' /\ ~shell)
            => /\ modelId' = LatestId
               /\ model'.modelId = LatestId]_vars

\* C14 witness: in ModelPicker with onModelChange, two calls in one event have
\* settled: the model id, the model, the recorded id and the handle passed to
\* onModelChange are those of the second call.
C14_Witness ==
    /\ Settled
    /\ shell
    /\ onModelChange
    /\ event.op = "setModelIdTwice"
    /\ event.changes
    /\ Truthy(event.arg[1])
    /\ Truthy(event.arg[2])
    /\ modelId = event.arg[2]
    /\ model.modelId = event.arg[2]
    /\ notified = <<model>>
    /\ Holds(preferredModelMap, selectedProvider, event.arg[2])

\* C15 as stated: manual toggle in ModelPicker.  A toggle made in list mode
\* (the flag is set to true) ends with modelId = the first known model id of
\* the selected provider; while a toggle made in custom mode (the flag is set
\* to false) is processed, modelId, apiKey, selectedProvider and both maps do
\* not change.
SelectionUnchanged ==
    UNCHANGED <<modelId, apiKey, selectedProvider, apiKeyMap, preferredModelMap>>

C15_ManualToggle ==
    [][(event'.op = "toggle" /\ PlainProviders) =>
         /\ (event'.arg = TRUE /\ Settled')
            => modelId' = FirstOrEmpty(ModelIdList(providers, selectedProvider'))
         /\ event'.arg = FALSE => SelectionUnchanged]_vars

\* C15 amended: the two directions are the other way round.  A toggle made in
\* custom mode (the flag is set to false) ends with modelId = modelIdList[0]
\* as the setter stores it; while a toggle made in list mode (the flag is set to
\* true) is processed, modelId, apiKey, selectedProvider and both maps do not
\* change.
C15_ToggleSnapsOnLeavingCustom ==
    [][event'.op = "toggle" =>
         /\ (event'.arg = FALSE /\ Settled')
            => modelId' = StoredModelId(useLS, providers,
                              First(ModelIdList(providers, selectedProvider')))
         /\ event'.arg = TRUE => SelectionUnchanged]_vars

\* C15 witness: the flag was toggled off while a custom model id was typed, and
\* the snap effect has queued the first known model id in its place.
C15_Witness ==
    /\ pc = "render"
    /\ event.op = "toggle"
    /\ event.arg = FALSE
    /\ Truthy(modelId)
    /\ ~Includes(ModelIdList(providers, selectedProvider), modelId)
    /\ queued.modelId = <<First(ModelIdList(providers, selectedProvider))>>
    /\ Truthy(queued.modelId[1])

\* C16: the custom flag is derived from membership.  In ModelPicker whose user
\* never clicks the toggle (SpecWithoutToggle), in every settled state
\* useCustomModelInput is true exactly when modelId is not in the selected
\* provider's models.  Stated here for the in-memory store.
C16_FlagFromMembership ==
    (Settled /\ shell /\ ~useLS)
    => (useCustomModelInput
        <=> ~Includes(ModelIdList(providers, selectedProvider), modelId))

\* C17: onModelChange notification (ModelPicker with the callback, LiveSpec).
\* Whenever a render has committed a new model handle, so that the effect on
\* [model, onModelChange] is due, the cascade eventually settles (unless the
\* component crashes) with the current model as the last argument of
\* onModelChange; the run of the effects that is due passes exactly the model of
\* that render; and in every settled state the last argument is the current model.
NotifyDue == pc = "effects" /\ "notify" \in runEffects

C17_Notification ==
    /\ NotifyDue ~> (pc = "crashed" \/ (Settled /\ notified = <<model>>))
    /\ [][(NotifyDue /\ pc' # "crashed") => notified' = <<model>>]_vars
    /\ [][(pc = "render" /\ pc' = "effects" /\ model' # model) => NotifyDue']_vars
    /\ [](Settled => notified = <<model>>)

\* C17 witness: after a credential edit the handle made from the new credential
\* is the current model and was the last argument of onModelChange.
C17_Witness ==
    /\ Settled
    /\ shell
    /\ onModelChange
    /\ event.op = "setApiKey"
    /\ event.changes
    /\ Truthy(event.arg)
    /\ model.apiKey = event.arg
    /\ notified = <<model>>

\* C18: the automatic flag tracking never alters the selection.  In ModelPicker
\* whose user never clicks the toggle (SpecWithoutToggle): once a model-id edit
\* to v has settled modelId = v; once a switch to a provider never visited has
\* settled modelId is its first known model id; and once the mount effects of an
\* instance mounted over localStorage have settled, modelId is the stored one.
C18_SelectionNotAltered ==
    (Settled /\ shell /\ PlainProviders)
    => /\ event.op = "setModelId" => modelId = event.arg
       /\ (event.op = "setSelectedProvider" /\ event.changes /\ event.firstVisit)
          => modelId = First(ModelIdList(providers, selectedProvider))
       /\ (event.op = "remount" /\ event.changes)
          => modelId = event.arg.modelId

\* C19: effect cascade termination (LiveSpec).  After a single external event
\* (setApiKey, setModelId, setSelectedProvider with a known name, a click on the
\* toggle) the chain of renders and effect runs reaches a settled state.
SingleEvent ==
    /\ event.op \in {"setApiKey", "setModelId", "setSelectedProvider", "toggle"}
    /\ event.op = "setSelectedProvider" => event.arg \in Names(providers)

C19_CascadeTerminates == (pc = "render" /\ SingleEvent) ~> Settled

\* C20: setter frame in useModelPicker.  In no step of the processing of a
\* setApiKey call do selectedProvider, modelId or preferredModelMap change; in
\* no step of the processing of a setModelId call do selectedProvider, apiKey or
\* apiKeyMap change; and selectedProvider changes only while a
\* setSelectedProvider call is processed (or when a new instance is mounted).
C20_SetterFrame ==
    [][~shell =>
         /\ event'.op = "setApiKey"
            => UNCHANGED <<selectedProvider, modelId, preferredModelMap>>
         /\ event'.op = "setModelId"
            => UNCHANGED <<selectedProvider, apiKey, apiKeyMap>>
         /\ selectedProvider' # selectedProvider
            => event'.op \in {"setSelectedProvider", "mount", "remount"}]_vars

\* C20 witness: in the bare hook a credential edit has settled on a provider
\* other than the first, with a model id other than its first and with model
\* ids recorded for two providers.
C20_Witness ==
    /\ Settled
    /\ ~shell
    /\ event.op = "setApiKey"
    /\ event.changes
    /\ apiKey = event.arg
    /\ selectedProvider # providers[1].name
    /\ modelId # First(ModelIdList(providers, selectedProvider))
    /\ Cardinality(DOMAIN preferredModelMap) = 2

====
